---------------------------- MODULE Spec2Model ----------------------------
(***************************************************************************)
(* A model of the flughermir back end: the manual flight integrator        *)
(* (physics.py), the JSBSim adapter (jsbsim_wrapper.py) and the 60 Hz tick  *)
(* loop with its WebSocket subscribers (main.py).                          *)
(*                                                                         *)
(* Python floats are modelled as fixed-point numbers: the real x is the    *)
(* integer x*S, finite values range over -FMAX..FMAX, and the three        *)
(* IEEE specials +Inf, -Inf and NaN are the integers PInf, NInf and NaN    *)
(* just outside that range.  Every arithmetic operator below follows the   *)
(* IEEE/Python rule for the specials (overflow gives an infinity,          *)
(* Inf - Inf and Inf * 0 give NaN, every comparison with NaN is false).    *)
(***************************************************************************)
EXTENDS Integers, Sequences, FiniteSets, TLC

\* Resolution of the fixed-point numbers: 1.0 is S.
S == 1000
\* Largest finite magnitude (the model's sys.float_info.max).
FMAX == 2000000000

PInf == FMAX + 1
NInf == -(FMAX + 1)
NaN  == FMAX + 2

\* The real number n/d (d > 0, n >= 0) as a fixed-point literal.
Lit(n, d) == (n * S) \div d

\* A local assigned once and read several times: e is evaluated once and
\* F applied to its value.
Bind(e, F(_)) == CHOOSE r \in {F(x) : x \in {e}} : TRUE

----------------------------------------------------------------------------
(* Float arithmetic *)

IsNaN(a) == a = NaN
IsInf(a) == a = PInf \/ a = NInf
isfinite(a) == -FMAX <= a /\ a <= FMAX
Abs(a) == IF a < 0 THEN -a ELSE a
Sgn(a) == IF a < 0 THEN -1 ELSE IF a > 0 THEN 1 ELSE 0

FNeg(a) == IF IsNaN(a) THEN NaN ELSE -a

FAdd(a, b) ==
    IF IsNaN(a) \/ IsNaN(b) THEN NaN
    ELSE IF IsInf(a) THEN (IF b = -a THEN NaN ELSE a)
    ELSE IF IsInf(b) THEN b
    ELSE IF a > 0 /\ b > FMAX - a THEN PInf
    ELSE IF a < 0 /\ b < (-FMAX) - a THEN NInf
    ELSE a + b

FSub(a, b) == FAdd(a, FNeg(b))

\* x + y for magnitudes (0..FMAX or PInf), saturating at PInf.
SatAdd(x, y) ==
    IF x = PInf \/ y = PInf THEN PInf
    ELSE IF y > FMAX - x THEN PInf ELSE x + y

\* A*B/S for finite magnitudes, computed in 32 bits by splitting at S.
MagMul(A, B) ==
    LET ah == A \div S
        al == A % S
        bh == B \div S
        bl == B % S
        hh == IF ah = 0 \/ bh = 0 THEN 0
              ELSE IF ah > (FMAX \div S) \div bh THEN PInf
              ELSE (ah * bh) * S
    IN  SatAdd(SatAdd(hh, ah * bl), SatAdd(al * bh, (al * bl) \div S))

FMul(a, b) ==
    IF IsNaN(a) \/ IsNaN(b) THEN NaN
    ELSE IF IsInf(a) \/ IsInf(b)
         THEN (IF a = 0 \/ b = 0 THEN NaN
               ELSE IF Sgn(a) * Sgn(b) > 0 THEN PInf ELSE NInf)
    ELSE LET m == MagMul(Abs(a), Abs(b))
         IN  IF Sgn(a) * Sgn(b) >= 0 THEN m ELSE -m

\* A*S/B for finite magnitudes, B > 0.
MagDiv(A, B) ==
    LET q == A \div B
        r == A % B
        frac == IF r <= FMAX \div S THEN (r * S) \div B ELSE r \div (B \div S)
    IN  IF q > FMAX \div S THEN PInf ELSE SatAdd(q * S, frac)

\* a / b; no caller divides by zero.
FDiv(a, b) ==
    IF IsNaN(a) \/ IsNaN(b) THEN NaN
    ELSE IF IsInf(a) THEN (IF IsInf(b) THEN NaN ELSE IF b > 0 THEN a ELSE -a)
    ELSE IF IsInf(b) THEN 0
    ELSE LET m == MagDiv(Abs(a), Abs(b))
         IN  IF Sgn(a) * Sgn(b) >= 0 THEN m ELSE -m

\* a * (1/n) for a positive integer n, rounded toward zero.
FDivN(a, n) ==
    IF ~isfinite(a) THEN a
    ELSE IF a >= 0 THEN a \div n ELSE -((-a) \div n)

FLt(a, b) == ~IsNaN(a) /\ ~IsNaN(b) /\ a < b
FGt(a, b) == FLt(b, a)
FGe(a, b) == ~IsNaN(a) /\ ~IsNaN(b) /\ a >= b
FLe(a, b) == FGe(b, a)

\* Python's max(a, b) and min(a, b): the first argument unless the second
\* compares greater (smaller), so a NaN second argument is dropped.
PyMax(a, b) == IF FGt(b, a) THEN b ELSE a
PyMin(a, b) == IF FLt(b, a) THEN b ELSE a

RECURSIVE SqrtSearch(_, _, _)
SqrtSearch(A, lo, hi) ==
    IF lo >= hi THEN lo
    ELSE LET mid == (lo + hi + 1) \div 2
         IN  IF MagMul(mid, mid) <= A
             THEN SqrtSearch(A, mid, hi)
             ELSE SqrtSearch(A, lo, mid - 1)

\* math.sqrt on a non-negative argument.
sqrt(a) ==
    IF IsNaN(a) THEN NaN
    ELSE IF a = PInf THEN PInf
    ELSE SqrtSearch(a, 0, 46000 * (S \div 30))

pi      == Lit(3142, 1000)
TwoPi   == Lit(6283, 1000)
HalfPi  == Lit(1571, 1000)

\* sin on 0..pi/2 by its Taylor polynomial of degree 7.
SinQ(t) ==
    LET t2 == (t * t) \div S
        a  == S - t2 \div 42
        b  == S - ((t2 * a) \div S) \div 20
        c  == S - ((t2 * b) \div S) \div 6
    IN  (t * c) \div S

\* sin on 0..2*pi.
SinR(y) ==
    IF y <= HalfPi THEN SinQ(y)
    ELSE IF y <= pi THEN SinQ(pi - y)
    ELSE IF y <= pi + HalfPi THEN -SinQ(y - pi)
    ELSE IF TwoPi - y <= HalfPi THEN -SinQ(TwoPi - y) ELSE -SinQ(HalfPi)

\* math.sin and math.cos on a finite or NaN argument (an infinite one
\* raises ValueError, see update_physics_raises).
sin(a) == IF IsNaN(a) THEN NaN ELSE SinR(a % TwoPi)
cos(a) == IF IsNaN(a) THEN NaN ELSE SinR(((a % TwoPi) + HalfPi) % TwoPi)


----------------------------------------------------------------------------
(* physics.py *)

MASS             == Lit(1000, 1)
G                == Lit(981, 100)
WEIGHT           == FMul(MASS, G)
WING_AREA        == Lit(162, 10)
CL0              == Lit(11, 10)
CL_ALPHA         == Lit(4, 1)
CD0              == Lit(35, 1000)
K                == Lit(3, 100)
THRUST_MAX       == Lit(2800, 1)
ROLLING_MU       == Lit(2, 100)
V_LOF            == Lit(28, 1)
MAX_SPEED        == Lit(400, 1)
MAX_AIRSPEED_MS  == Lit(8333, 100)
MAX_ANGLE        == pi
MAX_ANGULAR_RATE == Lit(4, 1)
POS_LIMIT        == Lit(1000000, 1)

StateFields ==
    {"x", "y", "z", "u", "v", "w", "phi", "theta", "psi", "p", "q", "r",
     "throttle", "elevator", "aileron", "rudder"}

\* The dataclass AircraftState with every field 0.0.
AircraftState == [f \in StateFields |-> 0]

\* x * dt, where dt is passed as its reciprocal (60 for dt = 1/60 s).
MulDt(a, dt) == FDivN(a, dt)

Mul3(a, b, c) == FMul(FMul(a, b), c)
Sum3(a, b, c) == FAdd(FAdd(a, b), c)

\* v_mag of the input state.
v_mag_of(state) ==
    Bind(sqrt(Sum3(FMul(state.u, state.u), FMul(state.v, state.v),
                   FMul(state.w, state.w))),
         LAMBDA v : IF FLt(v, Lit(1, 10)) THEN Lit(1, 10) ELSE v)

\* Body-frame accelerations [ax, ay, az] with ground-roll friction.
Accel(state) ==
    Bind(v_mag_of(state), LAMBDA v_mag :
    LET alpha  == FSub(state.theta,
                       IF FGt(v_mag, Lit(5, 10)) THEN FDiv(state.w, v_mag) ELSE 0)
        q_bar  == FMul(FMul(FMul(Lit(5, 10), Lit(1225, 1000)), v_mag), v_mag)
        cl     == FAdd(CL0, FMul(CL_ALPHA, alpha))
        cd     == FAdd(CD0, FMul(FMul(K, cl), cl))
        lift   == FMul(FMul(q_bar, WING_AREA), cl)
        drag   == FMul(FMul(q_bar, WING_AREA), cd)
        thrust == FMul(THRUST_MAX, state.throttle)
        moving == FGt(v_mag, Lit(1, 10))
        drag_x == IF moving THEN FMul(drag, FDiv(state.u, v_mag)) ELSE 0
        drag_z == IF moving THEN FMul(drag, FDiv(state.w, v_mag)) ELSE 0
        lift_z == IF moving THEN FMul(lift, FDiv(state.u, v_mag)) ELSE 0
        fz     == FAdd(FSub(FNeg(lift_z), drag_z), FMul(WEIGHT, cos(state.theta)))
        on_ground == FGe(state.z, 0)
        normal == PyMax(0, FSub(FMul(WEIGHT, cos(state.theta)), lift))
        fx     == IF on_ground /\ moving
                  THEN FSub(FSub(thrust, drag_x),
                            FMul(FMul(ROLLING_MU, normal), FDiv(state.u, v_mag)))
                  ELSE FSub(thrust, drag_x)
    IN  [ax |-> FDiv(fx, MASS), ay |-> 0, az |-> FDiv(fz, MASS)])

\* New angular rates and Euler angles, before clamping.
AngularStep(state, dt) ==
    LET p_new == FAdd(state.p, MulDt(FSub(FMul(state.aileron, Lit(6, 10)),
                                          FMul(state.p, Lit(4, 10))), dt))
        q_new == FAdd(state.q, MulDt(FSub(FMul(state.elevator, Lit(6, 10)),
                                          FMul(state.q, Lit(4, 10))), dt))
        r_new == FAdd(state.r, MulDt(FSub(FMul(state.rudder, Lit(4, 10)),
                                          FMul(state.r, Lit(4, 10))), dt))
    IN  [p_new |-> p_new, q_new |-> q_new, r_new |-> r_new,
         phi_new   |-> FAdd(state.phi, MulDt(p_new, dt)),
         theta_new |-> FAdd(state.theta, MulDt(q_new, dt)),
         psi_new   |-> FAdd(state.psi, MulDt(r_new, dt))]

\* World (NED) velocity after integrating the body velocity, rotated with
\* the old attitude.
WorldVelocity(state, dt) ==
    Bind(Accel(state), LAMBDA a :
    LET u_int == FAdd(state.u, MulDt(a.ax, dt))
        v_int == FAdd(state.v, MulDt(a.ay, dt))
        w_int == FAdd(state.w, MulDt(a.az, dt))
        cphi == cos(state.phi)
        sphi == sin(state.phi)
        cth  == cos(state.theta)
        sth  == sin(state.theta)
        cpsi == cos(state.psi)
        spsi == sin(state.psi)
    IN  [u_w |-> Sum3(FMul(u_int, FMul(cth, cpsi)),
                      FMul(v_int, FSub(Mul3(sphi, sth, cpsi), FMul(cphi, spsi))),
                      FMul(w_int, FAdd(Mul3(cphi, sth, cpsi), FMul(sphi, spsi)))),
         v_w |-> Sum3(FMul(u_int, FMul(cth, spsi)),
                      FMul(v_int, FAdd(Mul3(sphi, sth, spsi), FMul(cphi, cpsi))),
                      FMul(w_int, FSub(Mul3(cphi, sth, spsi), FMul(sphi, cpsi)))),
         w_w |-> Sum3(FMul(u_int, FNeg(sth)),
                      FMul(v_int, FMul(sphi, cth)),
                      FMul(w_int, FMul(cphi, cth)))])

\* Ground rule 1: on the ground a downward world velocity is zeroed.
GroundFloor(z, w_w) == IF FGe(z, 0) /\ FGt(w_w, 0) THEN 0 ELSE w_w

\* Variant without ground rule 2.
MinLiftOff_absent(z, v_mag, w_w) == w_w

\* Ground rule 2: on the ground below V_LOF an upward velocity is zeroed.
MinLiftOff(z, v_mag, w_w) ==
    IF FGe(z, 0) /\ FLt(v_mag, V_LOF) /\ FLt(w_w, 0) THEN 0 ELSE w_w

\* Vertical velocity and new z after the ground rules.
GroundContact(state, w_w0, dt) ==
    Bind(MinLiftOff(state.z, v_mag_of(state), GroundFloor(state.z, w_w0)),
         LAMBDA w_w2 :
    LET z_new0 == FAdd(state.z, MulDt(w_w2, dt))
    IN  IF FGt(z_new0, 0) THEN [z_new |-> 0, w_w |-> 0]
        ELSE [z_new |-> z_new0, w_w |-> w_w2])

\* The world velocity expressed in the new body frame.
BodyVelocity(u_w, v_w, w_w, phi_new, theta_new, psi_new) ==
    LET cphi_n == cos(phi_new)
        sphi_n == sin(phi_new)
        cth_n  == cos(theta_new)
        sth_n  == sin(theta_new)
        cpsi_n == cos(psi_new)
        spsi_n == sin(psi_new)
    IN  [u |-> Sum3(FMul(u_w, FMul(cth_n, cpsi_n)),
                    FMul(v_w, FMul(cth_n, spsi_n)),
                    FMul(w_w, FNeg(sth_n))),
         v |-> Sum3(FMul(u_w, FSub(Mul3(sphi_n, sth_n, cpsi_n), FMul(cphi_n, spsi_n))),
                    FMul(v_w, FAdd(Mul3(sphi_n, sth_n, spsi_n), FMul(cphi_n, cpsi_n))),
                    FMul(w_w, FMul(sphi_n, cth_n))),
         w |-> Sum3(FMul(u_w, FAdd(Mul3(cphi_n, sth_n, cpsi_n), FMul(sphi_n, spsi_n))),
                    FMul(v_w, FSub(Mul3(cphi_n, sth_n, spsi_n), FMul(sphi_n, cpsi_n))),
                    FMul(w_w, FMul(cphi_n, cth_n)))]

\* Cap airspeed: scale the velocity vector, preserve its direction.
CapAirspeed(b) ==
    Bind(sqrt(Sum3(FMul(b.u, b.u), FMul(b.v, b.v), FMul(b.w, b.w))),
         LAMBDA v_mag_new :
    LET scale == FDiv(MAX_AIRSPEED_MS, v_mag_new)
    IN  IF FGt(v_mag_new, MAX_AIRSPEED_MS) /\ FGt(v_mag_new, Lit(1, 100))
        THEN [u |-> FMul(b.u, scale), v |-> FMul(b.v, scale), w |-> FMul(b.w, scale)]
        ELSE b)

\* max(-limit, min(limit, x))
Clamp(limit, x) == PyMax(FNeg(limit), PyMin(limit, x))

\* psi_new % (2 * pi) if isfinite(psi_new) else 0.0
WrapHeading(psi_new) == IF isfinite(psi_new) THEN psi_new % TwoPi ELSE 0

\* update_physics raises ValueError (math domain error) when cos or sin
\* is applied to an infinite angle, old or new.
update_physics_raises(state, dt) ==
    LET n == AngularStep(state, dt)
    IN  \/ IsInf(state.phi) \/ IsInf(state.theta) \/ IsInf(state.psi)
        \/ IsInf(n.phi_new) \/ IsInf(n.theta_new) \/ IsInf(n.psi_new)

update_physics(state, dt) ==
    Bind(AngularStep(state, dt), LAMBDA n :
    Bind(WorldVelocity(state, dt), LAMBDA wv :
    Bind(GroundContact(state, wv.w_w, dt), LAMBDA g :
    Bind(CapAirspeed(BodyVelocity(wv.u_w, wv.v_w, g.w_w,
                                  n.phi_new, n.theta_new, n.psi_new)), LAMBDA b :
    LET x_new == FAdd(state.x, MulDt(wv.u_w, dt))
        y_new == FAdd(state.y, MulDt(wv.v_w, dt))
    IN  [x |-> Clamp(POS_LIMIT, x_new),
         y |-> Clamp(POS_LIMIT, y_new),
         z |-> Clamp(POS_LIMIT, g.z_new),
         u |-> Clamp(MAX_SPEED, b.u),
         v |-> Clamp(MAX_SPEED, b.v),
         w |-> Clamp(MAX_SPEED, b.w),
         phi   |-> Clamp(MAX_ANGLE, n.phi_new),
         theta |-> Clamp(MAX_ANGLE, n.theta_new),
         psi   |-> WrapHeading(n.psi_new),
         p |-> Clamp(MAX_ANGULAR_RATE, n.p_new),
         q |-> Clamp(MAX_ANGULAR_RATE, n.q_new),
         r |-> Clamp(MAX_ANGULAR_RATE, n.r_new),
         throttle |-> state.throttle, elevator |-> state.elevator,
         aileron  |-> state.aileron,  rudder   |-> state.rudder]))))

\* Largest magnitude state_to_telemetry still squares (1e100 in the source:
\* well below the square root of the largest float).
SquareLimit == Lit(1000, 1)

\* round(a, ndigits): to the nearest multiple of 10^-ndigits, ties to even;
\* a step finer than the model's resolution leaves the value as it is.
round(a, ndigits) ==
    LET unit == S \div (10 ^ ndigits)
        m    == Abs(a)
        lo   == (m \div unit) * unit
        up   == IF 2 * (m - lo) > unit THEN TRUE
                ELSE IF 2 * (m - lo) < unit THEN FALSE
                ELSE (lo \div unit) % 2 = 1
        r    == IF up THEN lo + unit ELSE lo
    IN  IF ~isfinite(a) \/ unit <= 1 THEN a
        ELSE IF a < 0 THEN -r ELSE r

\* radians to degrees: a * 180 / 3.14159265
Deg(a) == FDiv(FMul(a, Lit(180, 1)), pi)

\* state_to_telemetry raises ValueError on an infinite Euler angle.
state_to_telemetry_raises(state) ==
    IsInf(state.phi) \/ IsInf(state.theta) \/ IsInf(state.psi)

state_to_telemetry(state) ==
    LET u == state.u
        v == state.v
        w == state.w
        big == PyMax(PyMax(Abs(u), Abs(v)), Abs(w))
        v_mag == IF ~(isfinite(u) /\ isfinite(v) /\ isfinite(w)) THEN 0
                 ELSE IF FGt(big, SquareLimit) THEN MAX_AIRSPEED_MS
                 ELSE Bind(sqrt(Sum3(FMul(u, u), FMul(v, v), FMul(w, w))),
                           LAMBDA s2 :
                           PyMin(IF ~isfinite(s2) THEN MAX_AIRSPEED_MS ELSE s2,
                                 MAX_AIRSPEED_MS))
        cphi == cos(state.phi)
        sphi == sin(state.phi)
        cth  == cos(state.theta)
        sth  == sin(state.theta)
        w_world == Sum3(FMul(u, FNeg(sth)), FMul(v, FMul(sphi, cth)),
                        FMul(w, FMul(cphi, cth)))
        vertical_speed == FNeg(w_world)
    IN  [x |-> state.x,
         y |-> state.y,
         altitude |-> FNeg(state.z),
         phi_deg   |-> round(Deg(state.phi), 4),
         theta_deg |-> round(Deg(state.theta), 4),
         psi_deg   |-> round(Deg(state.psi), 4),
         airspeed  |-> round(v_mag, 2),
         vertical_speed |-> round(vertical_speed, 2),
         p_deg_s |-> round(Deg(state.p), 2),
         q_deg_s |-> round(Deg(state.q), 2),
         r_deg_s |-> round(Deg(state.r), 2),
         throttle |-> state.throttle,
         physics_engine |-> "manual"]

----------------------------------------------------------------------------
(* jsbsim_wrapper.py.  The JSBSim engine (FGFDMExec) is an external        *)
(* library: its property tree is reduced to the readings get_state uses,   *)
(* and what a run of the engine does to them is the environment's choice.  *)

\* Python's None.
None == [none |-> TRUE]

\* An engine: acc = the position properties exist; the other fields are
\* the properties h-sl-ft, long-gc-deg, vt-fps and phi-deg.
Fdm(acc, h, long, vt, phi) ==
    [acc |-> acc, h_sl_ft |-> h, long_gc_deg |-> long, vt_fps |-> vt, phi_deg |-> phi]

FdmRest == Fdm(TRUE, Lit(4, 1), 0, 0, 0)
FdmDown == Fdm(FALSE, 0, 0, 0, 0)
FdmFly  == Fdm(TRUE, Lit(3000, 1), 0, Lit(150, 1), Lit(5, 1))
FdmFar  == Fdm(TRUE, Lit(3000, 1), Lit(1, 1), Lit(150, 1), 0)
FdmNaN  == Fdm(TRUE, NaN, 0, Lit(150, 1), 0)

\* What an engine can read after a run, and right after it was built and
\* settled on the runway.
EngineStates == {FdmRest, FdmDown, FdmFly, FdmFar, FdmNaN}
FreshEngines == {FdmRest, FdmDown}

\* A JSBSimWrapper object: initialized, its engine, and the engine's
\* fcs/throttle-cmd-norm.
Wrapper(initialized, fdm, throttle) ==
    [initialized |-> initialized, fdm |-> fdm, throttle |-> throttle]

\* JSBSimWrapper.__init__: a wrapper around a new engine, or the constructor
\* raises (raised, no object).
JSBSimWrapper_new ==
    {[raised |-> FALSE, w |-> Wrapper(FALSE, f, 0)] : f \in FreshEngines}
    \cup {[raised |-> TRUE, w |-> None]}

\* JSBSimWrapper.initialize on engine f: 120 settling runs and
\* initialized = True, or an engine call raises and initialized = False.
JSBSimWrapper_initialize(w, f) ==
    {[raised |-> FALSE, w |-> Wrapper(TRUE, f, 0)],
     [raised |-> TRUE,  w |-> Wrapper(FALSE, f, w.throttle)]}

\* JSBSimWrapper.reset: initialized = False, a new FGFDMExec (if that
\* raises the old engine stays), then initialize.
JSBSimWrapper_reset(w) ==
    {[raised |-> TRUE, w |-> Wrapper(FALSE, w.fdm, w.throttle)]}
    \cup UNION {JSBSimWrapper_initialize(Wrapper(FALSE, f, 0), f) : f \in FreshEngines}

\* JSBSimWrapper.set_controls: clamps and stores; never raises.
JSBSimWrapper_set_controls(w, throttle) ==
    [w EXCEPT !.throttle = PyMax(0, PyMin(Lit(1, 1), throttle))]

\* JSBSimWrapper.step: False when not initialized or when the engine run
\* fails; otherwise the engine moves to some state and the result is True.
JSBSimWrapper_step(w) ==
    IF ~w.initialized THEN {[ok |-> FALSE, w |-> w]}
    ELSE {[ok |-> FALSE, w |-> w]}
         \cup {[ok |-> TRUE, w |-> [w EXCEPT !.fdm = f]] : f \in EngineStates}

FT == Lit(3048, 10000)

\* JSBSimWrapper.get_state
JSBSimWrapper_get_state(w) ==
    IF ~w.fdm.acc
    THEN [x |-> 0, y |-> 0, z |-> 0, altitude |-> 0,
          phi_deg |-> 0, theta_deg |-> 0, psi_deg |-> 0,
          airspeed |-> 0, vertical_speed |-> 0,
          p_deg_s |-> 0, q_deg_s |-> 0, r_deg_s |-> 0,
          throttle |-> 0, physics_engine |-> "manual"]
    ELSE [x |-> FMul(w.fdm.long_gc_deg, Lit(111320, 1)),
          y |-> FMul(0, Lit(111320, 1)),
          z |-> FMul(FNeg(w.fdm.h_sl_ft), FT),
          altitude |-> FMul(w.fdm.h_sl_ft, FT),
          phi_deg |-> w.fdm.phi_deg, theta_deg |-> 0, psi_deg |-> 0,
          airspeed |-> FMul(w.fdm.vt_fps, FT),
          vertical_speed |-> FMul(0, FT),
          p_deg_s |-> 0, q_deg_s |-> 0, r_deg_s |-> 0,
          throttle |-> w.throttle, physics_engine |-> "jsbsim"]

----------------------------------------------------------------------------
(* main.py: module state and the synchronous helpers.                      *)

VARIABLES
    JSBSIM_AVAILABLE,       \* the import of jsbsim_wrapper succeeded
    _jsbsim,                \* None or the JSBSimWrapper
    _state,                 \* None or the AircraftState of the manual integrator
    _control,               \* the staged control inputs
    _ws_connections,        \* the list of subscribers, in order
    pc,                     \* where physics_loop stands
    jsbsim_failed_count,    \* local of physics_loop
    _jsbsim_slow_speed_count, \* attribute of physics_loop
    msg,                    \* the frame being broadcast
    it,                     \* position of the iterator over _ws_connections
    dead,                   \* subscribers whose send raised in this broadcast
    wsock,                  \* each connection: "new", "open", "closed", "gone"
    nticks,                 \* history: wake-ups of physics_loop so far, up to MaxTicks
    sw,                     \* history: switches to the manual integrator (0, 1, 2 = more)
    native_after_switch,    \* history: the native backend was used after a switch
    bc,                     \* history: bookkeeping of the current/last broadcast
    ev,                     \* history: "error" when the last pass of physics_loop ended in its except clause
    ph                      \* history of the integrator and wrapper harnesses

vars == <<JSBSIM_AVAILABLE, _jsbsim, _state, _control, _ws_connections, pc,
          jsbsim_failed_count, _jsbsim_slow_speed_count, msg, it, dead, wsock,
          nticks, sw, native_after_switch, bc, ev, ph>>

DtHz == 60
MAX_JSBSIM_FAILURES == 10
SLOW_SPEED_TICKS == 60
ALTITUDE_MIN == FNeg(Lit(200, 1))
ALTITUDE_MAX == Lit(50000, 1)
POSITION_ABS_MAX == Lit(100000, 1)

ControlKeys == {"throttle", "elevator", "aileron", "rudder"}
ZeroControl == [k \in ControlKeys |-> 0]

\* Python == on floats: NaN equals nothing.
FEq(a, b) == ~IsNaN(a) /\ ~IsNaN(b) /\ a = b

get_initial_state(av) == IF av THEN None ELSE AircraftState

\* Variant of reset_sim without the try/except of lines 66-75: a failure
\* of the constructor or of JSBSimWrapper.reset leaves reset_sim.
reset_sim_unguarded(av, jsb, st) ==
    IF av
    THEN UNION { IF m.raised
                 THEN {[jsbsim |-> None, state |-> st, native |-> TRUE, raised |-> TRUE]}
                 ELSE LET w1 == IF m.w.initialized
                                THEN JSBSimWrapper_set_controls(m.w, 0) ELSE m.w
                      IN  {[jsbsim |-> r.w, state |-> st, native |-> TRUE, raised |-> r.raised]
                              : r \in JSBSimWrapper_reset(w1)}
               : m \in (IF jsb = None THEN JSBSimWrapper_new
                                      ELSE {[raised |-> FALSE, w |-> jsb]}) }
    ELSE {[jsbsim |-> jsb, state |-> get_initial_state(av), native |-> FALSE, raised |-> FALSE]}

\* Variant whose manual branch alternates between no state and the initial
\* state.
reset_sim_toggle(av, jsb, st) ==
    IF av
    THEN {[jsbsim |-> jsb, state |-> st, native |-> TRUE, raised |-> FALSE]}
    ELSE {[jsbsim |-> jsb, state |-> IF st = AircraftState THEN None ELSE AircraftState,
           native |-> FALSE, raised |-> FALSE]}

\* reset_sim: the possible results.  The controls are zeroed by the caller
\* of this operator (lines 61-64); raised is whether an exception leaves
\* reset_sim, which the try/except of lines 66-75 never allows.
reset_sim(av, jsb, st) ==
    IF av
    THEN UNION { IF m.raised
                 THEN {[jsbsim |-> None, state |-> st, native |-> TRUE, raised |-> FALSE]}
                 ELSE LET w1 == IF m.w.initialized
                                THEN JSBSimWrapper_set_controls(m.w, 0) ELSE m.w
                      IN  {[jsbsim |-> r.w, state |-> st, native |-> TRUE, raised |-> FALSE]
                              : r \in JSBSimWrapper_reset(w1)}
               : m \in (IF jsb = None THEN JSBSimWrapper_new
                                      ELSE {[raised |-> FALSE, w |-> jsb]}) }
    ELSE {[jsbsim |-> jsb, state |-> get_initial_state(av), native |-> FALSE, raised |-> FALSE]}

_state_out_of_bounds(state) ==
    \/ FLt(state.altitude, ALTITUDE_MIN) \/ FGt(state.altitude, ALTITUDE_MAX)
    \/ FGt(Abs(state.x), POSITION_ABS_MAX) \/ FGt(Abs(state.y), POSITION_ABS_MAX)

\* The result of one pass through the body of `while True`.  kind is how
\* the pass ended: "bcast" (it reached the broadcast), "error" (the except
\* clause), or the `continue` it took: "step_failed" (line 170), "invalid"
\* (line 182), "watchdog" (line 202).
Out(kind, jsb, st, ctl, failed, slow, tel, switched, native, crashed) ==
    [kind |-> kind, jsbsim |-> jsb, state |-> st, control |-> ctl,
     failed |-> failed, slow |-> slow, tel |-> tel,
     switched |-> switched, native |-> native, crashed |-> crashed]

\* except Exception (lines 236-239): log, reset_sim(), next pass.  An
\* exception leaving reset_sim here would leave physics_loop.
ExceptHandler(av, jsb, st, failed, slow, switched, native) ==
    { Out("error", r.jsbsim, r.state, ZeroControl, failed, slow, None,
          switched, native \/ r.native, r.raised) : r \in reset_sim(av, jsb, st) }

\* Lines 218-227: the bounds check, the reset and the re-read of the frame.
CheckBounds(av, jsb, st, ctl, failed, slow, tel, switched, native) ==
    IF _state_out_of_bounds(tel)
    THEN UNION { IF r.raised
                 THEN ExceptHandler(av, r.jsbsim, r.state, failed, slow, switched, TRUE)
                 ELSE {Out("bcast", r.jsbsim, r.state, ZeroControl, failed, slow,
                           IF av /\ r.jsbsim # None THEN JSBSimWrapper_get_state(r.jsbsim)
                           ELSE IF r.state # None THEN state_to_telemetry(r.state)
                           ELSE tel,
                           switched, native \/ r.native, FALSE)}
               : r \in reset_sim(av, jsb, st) }
    ELSE {Out("bcast", jsb, st, ctl, failed, slow, tel, switched, native, FALSE)}

\* The count of consecutive failures is only compared with >=
\* MAX_JSBSIM_FAILURES, so it is kept saturated at that value.
CountUp(failed) ==
    IF failed + 1 > MAX_JSBSIM_FAILURES THEN MAX_JSBSIM_FAILURES ELSE failed + 1

\* Lines 173-206: the health checks on the frame tel read from wrapper w.
AfterRead(av, w, st, ctl, failed, slow, tel) ==
    LET zero == FEq(tel.altitude, 0) /\ FEq(tel.airspeed, 0) /\ FEq(tel.phi_deg, 0)
        c    == CountUp(failed)
        gone == zero /\ c >= MAX_JSBSIM_FAILURES
        jsb1 == IF gone THEN None ELSE w
        st1  == IF gone THEN get_initial_state(av) ELSE st
        f1   == IF zero THEN c ELSE failed
        lazy == FGt(ctl.throttle, Lit(3, 10)) /\ FLt(tel.airspeed, Lit(3, 1))
        n    == slow + 1
    IN  IF zero /\ ~gone
        THEN {Out("invalid", w, st, ctl, c, slow, None, FALSE, TRUE, FALSE)}
        ELSE IF lazy /\ n > SLOW_SPEED_TICKS
        THEN {Out("watchdog", None, get_initial_state(av), ctl, f1, 0, None, TRUE, TRUE, FALSE)}
        ELSE CheckBounds(av, jsb1, st1, ctl, 0, IF lazy THEN n ELSE 0, tel, gone, TRUE)

\* Lines 171-206 after a successful step of wrapper w.
AfterStep(av, w, st, ctl, failed, slow) ==
    UNION { AfterRead(av, w, st, ctl, failed, slow, tel)
              : tel \in {JSBSimWrapper_get_state(w)} }

\* Lines 155-206: the native backend's pass.
JsbsimPath(av, jsb, st, ctl, failed, slow) ==
    UNION { IF s.ok
            THEN AfterStep(av, s.w, st, ctl, failed, slow)
            ELSE IF CountUp(failed) >= MAX_JSBSIM_FAILURES
            THEN {Out("step_failed", None, get_initial_state(av), ctl, CountUp(failed),
                      slow, None, TRUE, TRUE, FALSE)}
            ELSE UNION { IF r.raised
                         THEN ExceptHandler(av, r.jsbsim, r.state, CountUp(failed), slow, FALSE, TRUE)
                         ELSE {Out("step_failed", r.jsbsim, r.state, ZeroControl,
                                   CountUp(failed), slow, None, FALSE, TRUE, FALSE)}
                       : r \in reset_sim(av, s.w, st) }
          : s \in JSBSimWrapper_step(JSBSimWrapper_set_controls(jsb, ctl.throttle)) }

\* Lines 208-216: the manual integrator's pass.  vars(None) raises
\* TypeError; update_physics may raise ValueError.
ManualPath(av, jsb, st, ctl, failed, slow) ==
    LET st0 == IF st = None THEN get_initial_state(av) ELSE st
    IN  IF st0 = None
        THEN ExceptHandler(av, jsb, st0, failed, slow, FALSE, FALSE)
        ELSE LET inp == [st0 EXCEPT !.throttle = ctl.throttle, !.elevator = ctl.elevator,
                                    !.aileron = ctl.aileron, !.rudder = ctl.rudder]
             IN  IF update_physics_raises(inp, DtHz)
                 THEN ExceptHandler(av, jsb, inp, failed, slow, FALSE, FALSE)
                 ELSE Bind(update_physics(inp, DtHz), LAMBDA st1 :
                          IF state_to_telemetry_raises(st1)
                          THEN ExceptHandler(av, jsb, st1, failed, slow, FALSE, FALSE)
                          ELSE CheckBounds(av, jsb, st1, ctl, failed, slow,
                                           state_to_telemetry(st1), FALSE, FALSE))

\* Lines 152-227: one pass up to the broadcast.
physics_loop_pass(av, jsb, st, ctl, failed, slow) ==
    IF av /\ jsb # None
    THEN JsbsimPath(av, jsb, st, ctl, failed, slow)
    ELSE ManualPath(av, jsb, st, ctl, failed, slow)

----------------------------------------------------------------------------
(* Control messages (websocket_endpoint, lines 358-372).                   *)

\* What float(data[key]) makes of the value under a key.
Absent == [t |-> "absent"]
Num(v) == [t |-> "num", v |-> v]
Bad    == [t |-> "bad"]         \* float() raises ValueError or TypeError
Huge   == [t |-> "huge"]        \* an integer too large: float() raises OverflowError

NoKeys == [k \in ControlKeys |-> Absent]
Object(data) == [json |-> "object", data |-> data]
InvalidJson == [json |-> "invalid", data |-> NoKeys]
NonObject   == [json |-> "nonobject", data |-> NoKeys]

KeyOrder == <<"throttle", "elevator", "aileron", "rudder">>

\* Variant that stores the value as received.
ClampControl_absent(k, x) == x

ClampControl(k, x) ==
    IF k = "throttle" THEN PyMax(0, PyMin(Lit(1, 1), x))
    ELSE PyMax(FNeg(Lit(1, 1)), PyMin(Lit(1, 1), x))

\* The four `if key in data` statements from the i-th on: the staged
\* controls afterwards and how the try block ended ("ok", "caught" by
\* the except clause of line 371, or "uncaught").
RECURSIVE ApplyKeys(_, _, _)
ApplyKeys(ctl, data, i) ==
    IF i > Len(KeyOrder) THEN [control |-> ctl, end |-> "ok"]
    ELSE LET k == KeyOrder[i]
             d == data[k]
         IN  IF d.t = "absent" THEN ApplyKeys(ctl, data, i + 1)
             ELSE IF d.t = "bad" THEN [control |-> ctl, end |-> "caught"]
             ELSE IF d.t = "huge" THEN [control |-> ctl, end |-> "uncaught"]
             ELSE ApplyKeys([ctl EXCEPT ![k] = ClampControl(k, d.v)], data, i + 1)

control_message(ctl, m) ==
    IF m.json = "object" THEN ApplyKeys(ctl, m.data, 1)
    ELSE [control |-> ctl, end |-> "caught"]

----------------------------------------------------------------------------
(* The server: physics_loop, websocket_endpoint and POST /reset.           *)

MaxWs == 2
MaxTicks == 2

WS == 1 .. MaxWs

Msgs ==
    {Object([NoKeys EXCEPT !.throttle = Num(Lit(2, 1))]),
     Object([NoKeys EXCEPT !.throttle = Num(Lit(2, 1)), !.elevator = Bad]),
     Object([NoKeys EXCEPT !.elevator = Num(FNeg(Lit(3, 1))), !.rudder = Num(NaN)]),
     Object([NoKeys EXCEPT !.aileron = Huge]),
     InvalidJson,
     NonObject}

Remove(seq, x) == SelectSeq(seq, LAMBDA e : e # x)
Elems(seq) == {seq[i] : i \in 1 .. Len(seq)}

NoBc == [start |-> {}, got |-> {}, raised |-> {}, done |-> FALSE]
NoPh == [n |-> 0]

\* reset_sim is not called.
NoReset(jsb, st) == [jsbsim |-> jsb, state |-> st, native |-> FALSE, raised |-> FALSE]

Init ==
    /\ JSBSIM_AVAILABLE \in BOOLEAN
    /\ _jsbsim = None
    /\ _state = None
    /\ _control = ZeroControl
    /\ _ws_connections = <<>>
    /\ pc = "boot"
    /\ jsbsim_failed_count = 0
    /\ _jsbsim_slow_speed_count = 0
    /\ msg = None
    /\ it = 0
    /\ dead = <<>>
    /\ wsock = [w \in WS |-> "new"]
    /\ nticks = 0
    /\ sw = 0
    /\ native_after_switch = FALSE
    /\ bc = NoBc
    /\ ev = "none"
    /\ ph = NoPh

\* Lines 98-148: the native backend is built, initialized, tested for a
\* second at half throttle and reset; any failure leaves _jsbsim = None.
Bootstrap ==
    /\ pc = "boot"
    /\ \E j \in (IF JSBSIM_AVAILABLE
                 THEN {None} \cup {r.w : r \in {q \in JSBSimWrapper_reset(Wrapper(TRUE, FdmRest, Lit(1, 2))) : ~q.raised}}
                 ELSE {None}) :
          /\ _jsbsim' = j
          /\ _state' = IF ~JSBSIM_AVAILABLE \/ j = None
                       THEN get_initial_state(JSBSIM_AVAILABLE) ELSE _state
    /\ pc' = "sleep"
    /\ UNCHANGED <<JSBSIM_AVAILABLE, _control, _ws_connections, jsbsim_failed_count,
                   _jsbsim_slow_speed_count, msg, it, dead, wsock, nticks, sw,
                   native_after_switch, bc, ev, ph>>

\* One wake-up of physics_loop: the pass through the body up to the first
\* await of the broadcast (with no subscriber, up to the next sleep).
TickBody(o) ==
    /\ _jsbsim' = o.jsbsim
    /\ _state' = o.state
    /\ _control' = o.control
    /\ jsbsim_failed_count' = o.failed
    /\ _jsbsim_slow_speed_count' = o.slow
    /\ msg' = IF o.kind = "bcast" THEN o.tel ELSE msg
    /\ pc' = IF o.crashed THEN "crashed"
             ELSE IF o.kind = "bcast" /\ Len(_ws_connections) > 0 THEN "send"
             ELSE "sleep"
    /\ bc' = IF o.kind = "bcast"
             THEN [NoBc EXCEPT !.start = Elems(_ws_connections),
                               !.done = (Len(_ws_connections) = 0)]
             ELSE bc
    /\ sw' = IF o.switched THEN (IF sw = 0 THEN 1 ELSE 2) ELSE sw
    /\ native_after_switch' = (native_after_switch \/ (sw > 0 /\ o.native))
    /\ ev' = IF o.kind = "error" THEN "error" ELSE "none"
    /\ it' = 0
    /\ dead' = <<>>
    /\ nticks' = IF nticks < MaxTicks THEN nticks + 1 ELSE nticks
    /\ UNCHANGED <<JSBSIM_AVAILABLE, _ws_connections, wsock>>

Tick ==
    /\ pc = "sleep"
    /\ \E o \in physics_loop_pass(JSBSIM_AVAILABLE, _jsbsim, _state, _control,
                                  jsbsim_failed_count, _jsbsim_slow_speed_count) :
          TickBody(o)
    /\ UNCHANGED ph

\* Lines 229-233: the next subscriber of the live list is sent the frame.
\* `await ws.send_text(msg)` returns or raises; to a peer that has stopped
\* reading it does neither, and the coroutine stays suspended there.
Send ==
    /\ pc = "send"
    /\ it < Len(_ws_connections)
    /\ wsock[_ws_connections[it + 1]] # "hung"
    /\ LET ws == _ws_connections[it + 1]
       IN  /\ dead' = IF wsock[ws] = "open" THEN dead ELSE Append(dead, ws)
           /\ bc' = IF wsock[ws] = "open"
                    THEN [bc EXCEPT !.got = @ \cup {ws}]
                    ELSE [bc EXCEPT !.raised = @ \cup {ws}]
    /\ it' = it + 1
    /\ UNCHANGED <<JSBSIM_AVAILABLE, _jsbsim, _state, _control, _ws_connections, pc,
                   jsbsim_failed_count, _jsbsim_slow_speed_count, msg, wsock, nticks,
                   sw, native_after_switch, ev, ph>>

\* list.remove for each element of d in turn; err when one is not in the list.
RECURSIVE RemoveDead(_, _)
RemoveDead(conns, d) ==
    IF d = <<>> THEN [conns |-> conns, err |-> FALSE]
    ELSE IF Head(d) \notin Elems(conns) THEN [conns |-> conns, err |-> TRUE]
    ELSE RemoveDead(Remove(conns, Head(d)), Tail(d))

\* Lines 234-239: the iterator is exhausted, the dead are removed; the
\* ValueError of a remove is caught by the loop's except clause.
FinishBroadcast ==
    /\ pc = "send"
    /\ it >= Len(_ws_connections)
    /\ LET rd == RemoveDead(_ws_connections, dead)
       IN  /\ _ws_connections' = rd.conns
           /\ \E r \in (IF rd.err THEN reset_sim(JSBSIM_AVAILABLE, _jsbsim, _state)
                                  ELSE {NoReset(_jsbsim, _state)}) :
                 /\ _jsbsim' = r.jsbsim
                 /\ _state' = r.state
                 /\ native_after_switch' = (native_after_switch \/ (sw > 0 /\ r.native))
                 /\ pc' = IF r.raised THEN "crashed" ELSE "sleep"
           /\ _control' = IF rd.err THEN ZeroControl ELSE _control
           /\ bc' = [bc EXCEPT !.done = TRUE]
           /\ ev' = IF rd.err THEN "error" ELSE ev
    /\ UNCHANGED <<JSBSIM_AVAILABLE, jsbsim_failed_count, _jsbsim_slow_speed_count,
                   msg, it, dead, wsock, nticks, sw, ph>>

\* Lines 339-357: accept, register, and the first frame (which calls
\* reset_sim when there is neither a native backend nor a manual state).
Connect(ws) ==
    /\ pc # "boot"
    /\ wsock[ws] = "new"
    /\ wsock' = [wsock EXCEPT ![ws] = "open"]
    /\ _ws_connections' = Append(_ws_connections, ws)
    /\ \E r \in (IF ~(JSBSIM_AVAILABLE /\ _jsbsim # None) /\ _state = None
                 THEN reset_sim(JSBSIM_AVAILABLE, _jsbsim, _state)
                 ELSE {NoReset(_jsbsim, _state)}) :
          /\ _jsbsim' = r.jsbsim
          /\ _state' = r.state
          /\ native_after_switch' = (native_after_switch \/ (sw > 0 /\ r.native))
    /\ _control' = IF ~(JSBSIM_AVAILABLE /\ _jsbsim # None) /\ _state = None
                   THEN ZeroControl ELSE _control
    /\ UNCHANGED <<JSBSIM_AVAILABLE, pc, jsbsim_failed_count, _jsbsim_slow_speed_count,
                   msg, it, dead, nticks, sw, bc, ev, ph>>

\* The handler leaves its loop: the finally clause of lines 375-377.
Leave(ws) ==
    /\ wsock' = [wsock EXCEPT ![ws] = "gone"]
    /\ _ws_connections' = Remove(_ws_connections, ws)

\* Lines 360-372: one control message.
Receive(ws, m) ==
    /\ wsock[ws] = "open"
    /\ LET a == control_message(_control, m)
       IN  /\ _control' = a.control
           /\ IF a.end = "uncaught" THEN Leave(ws)
              ELSE UNCHANGED <<wsock, _ws_connections>>
    /\ UNCHANGED <<JSBSIM_AVAILABLE, _jsbsim, _state, pc, jsbsim_failed_count,
                   _jsbsim_slow_speed_count, msg, it, dead, nticks, sw,
                   native_after_switch, bc, ev, ph>>

\* The peer goes away: later sends to it raise.
PeerClose(ws) ==
    /\ wsock[ws] = "open"
    /\ wsock' = [wsock EXCEPT ![ws] = "closed"]
    /\ UNCHANGED <<JSBSIM_AVAILABLE, _jsbsim, _state, _control, _ws_connections, pc,
                   jsbsim_failed_count, _jsbsim_slow_speed_count, msg, it, dead,
                   nticks, sw, native_after_switch, bc, ev, ph>>

\* The peer stops reading without closing: a send to it does not complete.
PeerHang(ws) ==
    /\ wsock[ws] = "open"
    /\ wsock' = [wsock EXCEPT ![ws] = "hung"]
    /\ UNCHANGED <<JSBSIM_AVAILABLE, _jsbsim, _state, _control, _ws_connections, pc,
                   jsbsim_failed_count, _jsbsim_slow_speed_count, msg, it, dead,
                   nticks, sw, native_after_switch, bc, ev, ph>>

\* Lines 373-377: receive_text raises WebSocketDisconnect.
Disconnect(ws) ==
    /\ wsock[ws] = "closed"
    /\ Leave(ws)
    /\ UNCHANGED <<JSBSIM_AVAILABLE, _jsbsim, _state, _control, pc,
                   jsbsim_failed_count, _jsbsim_slow_speed_count, msg, it, dead,
                   nticks, sw, native_after_switch, bc, ev, ph>>

\* POST /reset (lines 330-334).
reset ==
    /\ pc # "boot"
    /\ \E r \in reset_sim(JSBSIM_AVAILABLE, _jsbsim, _state) :
          /\ _jsbsim' = r.jsbsim
          /\ _state' = r.state
          /\ native_after_switch' = (native_after_switch \/ (sw > 0 /\ r.native))
    /\ _control' = ZeroControl
    /\ UNCHANGED <<JSBSIM_AVAILABLE, _ws_connections, pc, jsbsim_failed_count,
                   _jsbsim_slow_speed_count, msg, it, dead, wsock, nticks, sw, bc, ev, ph>>

Next ==
    \/ Bootstrap
    \/ (nticks < MaxTicks /\ Tick)
    \/ Send
    \/ FinishBroadcast
    \/ \E ws \in WS : Connect(ws)
    \/ \E ws \in WS : \E m \in Msgs : Receive(ws, m)
    \/ \E ws \in WS : PeerClose(ws)
    \/ \E ws \in WS : Disconnect(ws)
    \/ reset

Spec == Init /\ [][Next]_vars

\* The native backend's configuration after the bootstrap, with one
\* subscriber connected, which may go away.
Booted ==
    /\ JSBSIM_AVAILABLE = TRUE
    /\ _jsbsim \in {None} \cup {r.w : r \in {q \in JSBSimWrapper_reset(Wrapper(TRUE, FdmRest, Lit(1, 2))) : ~q.raised}}
    /\ _state = None
    /\ _ws_connections = <<1>>
    /\ pc = "sleep"
    /\ jsbsim_failed_count = 0
    /\ _jsbsim_slow_speed_count = 0
    /\ msg = None
    /\ it = 0
    /\ dead = <<>>
    /\ wsock = [w \in WS |-> IF w = 1 THEN "open" ELSE "gone"]
    /\ bc = NoBc
    /\ ev = "none"
    /\ ph = NoPh

\* The subscriber may have staged full throttle; the loop runs without a
\* tick bound.
InitFailover ==
    /\ Booted
    /\ _control \in {ZeroControl, [ZeroControl EXCEPT !.throttle = Lit(1, 1)]}
    /\ nticks = 0
    /\ sw = 0
    /\ native_after_switch = FALSE

NextFailover ==
    \/ Tick
    \/ Send
    \/ FinishBroadcast
    \/ PeerClose(1)
    \/ Disconnect(1)
    \/ reset

SpecFailover == InitFailover /\ [][NextFailover]_vars

\* The event loop runs every coroutine that is ready: the sleep of line 151
\* ends, and a send returns or raises.
\* The history variables start saturated: nothing read by the program
\* depends on them.
InitLive ==
    /\ Booted
    /\ _control = ZeroControl
    /\ nticks = MaxTicks
    /\ sw = 2
    /\ native_after_switch = TRUE

SpecLive ==
    /\ InitLive /\ [][NextFailover]_vars
    /\ WF_vars(Tick) /\ WF_vars(Send) /\ WF_vars(FinishBroadcast)

\* Two subscribers of the native backend, and peers that may stop reading.
InitHung ==
    /\ JSBSIM_AVAILABLE = TRUE
    /\ _jsbsim \in {r.w : r \in {q \in JSBSimWrapper_reset(Wrapper(TRUE, FdmRest, 0)) : ~q.raised}}
    /\ _state = get_initial_state(JSBSIM_AVAILABLE)
    /\ _control = ZeroControl
    /\ _ws_connections = <<1, 2>>
    /\ pc = "sleep"
    /\ jsbsim_failed_count = 0
    /\ _jsbsim_slow_speed_count = 0
    /\ msg = None
    /\ it = 0
    /\ dead = <<>>
    /\ wsock = [w \in WS |-> "open"]
    /\ bc = NoBc
    /\ ev = "none"
    /\ ph = NoPh
    /\ nticks = MaxTicks
    /\ sw = 2
    /\ native_after_switch = TRUE

NextHung ==
    \/ Tick
    \/ Send
    \/ FinishBroadcast
    \/ \E ws \in WS : PeerHang(ws)
    \/ PeerClose(1)
    \/ Disconnect(1)

SpecHung ==
    /\ InitHung /\ [][NextHung]_vars
    /\ WF_vars(Tick) /\ WF_vars(Send) /\ WF_vars(FinishBroadcast)


----------------------------------------------------------------------------
(* The manual integrator on its own: update_physics applied repeatedly to  *)
(* a chosen input state, as the manual pass of physics_loop applies it     *)
(* (lines 211-216), without the bounds check.                              *)

MaxPhysSteps == 3

Ground(theta, u, w) == [AircraftState EXCEPT !.theta = theta, !.u = u, !.w = w]
Flying(z, u, v, w)  == [AircraftState EXCEPT !.z = z, !.u = u, !.v = v, !.w = w]

PhysInputs ==
    { AircraftState,
      Ground(0, Lit(20, 1), 0),
      Ground(0, Lit(279, 10), 0),
      Ground(0, Lit(30, 1), 0),
      Ground(Lit(3, 10), Lit(30, 1), 0),
      Ground(Lit(3, 10), Lit(20, 1), 0),
      Ground(FNeg(Lit(25, 10)), Lit(22352, 1000), Lit(16697, 1000)),
      Ground(0, Lit(90, 1), 0),
      Flying(FNeg(Lit(100, 1)), Lit(60, 1), 0, Lit(2, 1)),
      Flying(FNeg(Lit(100, 1)), Lit(90, 1), Lit(30, 1), Lit(5, 1)),
      Flying(FNeg(Lit(100, 1)), Lit(84, 1), 0, 0),
      Flying(FNeg(Lit(100, 1)), FMAX, 0, 0),
      Flying(FNeg(Lit(100, 1)), FMAX, FNeg(Lit(50, 1)), 0),
      [AircraftState EXCEPT !.phi = FMAX, !.p = FMAX],
      [AircraftState EXCEPT !.x = FMAX, !.u = Lit(30, 1)],
      Flying(PInf, Lit(30, 1), 0, 0),
      Flying(NInf, Lit(30, 1), 0, 0),
      Flying(NaN, Lit(30, 1), 0, 0),
      Flying(FNeg(Lit(100, 1)), NaN, 0, 0),
      Flying(FNeg(Lit(100, 1)), Lit(30, 1), PInf, 0),
      [Flying(FNeg(Lit(100, 1)), Lit(30, 1), 0, 0) EXCEPT !.x = NaN],
      [Flying(FNeg(Lit(100, 1)), Lit(30, 1), 0, 0) EXCEPT !.y = NInf] }

Controls(throttle, elevator) ==
    [ZeroControl EXCEPT !.throttle = throttle, !.elevator = elevator]

ControlChoices ==
    { Controls(0, Lit(1, 1)), Controls(0, FNeg(Lit(1, 1))),
      Controls(Lit(1, 1), 0), Controls(Lit(1, 1), Lit(1, 1)) }

\* Lines 211-214: the staged controls are copied into the state.
WithControls(st, ctl) ==
    [st EXCEPT !.throttle = ctl.throttle, !.elevator = ctl.elevator,
               !.aileron = ctl.aileron, !.rudder = ctl.rudder]

\* History of a run: n steps taken, the input of the last step (pre),
\* whether it raised, the state the run started from (first), whether
\* every step so far had zero throttle and a nonzero elevator (idle),
\* and whether some step's input had reached V_LOF (lof).
InitPhys ==
    /\ JSBSIM_AVAILABLE = FALSE
    /\ _jsbsim = None
    /\ _state \in PhysInputs
    /\ _control = ZeroControl
    /\ _ws_connections = <<>>
    /\ pc = "sleep"
    /\ jsbsim_failed_count = 0
    /\ _jsbsim_slow_speed_count = 0
    /\ msg = None
    /\ it = 0
    /\ dead = <<>>
    /\ wsock = [w \in WS |-> "new"]
    /\ nticks = 0
    /\ sw = 0
    /\ native_after_switch = FALSE
    /\ bc = NoBc
    /\ ev = "none"
    /\ ph = [n |-> 0, pre |-> _state, raised |-> FALSE, first |-> _state,
             idle |-> TRUE, lof |-> FALSE]

PhysStep(ctl) ==
    /\ ph.n < MaxPhysSteps
    /\ ~ph.raised
    /\ LET inp == WithControls(_state, ctl)
           bad == update_physics_raises(inp, DtHz)
       IN  /\ _state' = IF bad THEN inp ELSE update_physics(inp, DtHz)
           /\ ph' = [n |-> ph.n + 1, pre |-> inp, raised |-> bad, first |-> ph.first,
                     idle |-> ph.idle /\ ctl.throttle = 0 /\ ctl.elevator # 0,
                     lof |-> ph.lof \/ FGe(v_mag_of(inp), V_LOF)]
    /\ _control' = ctl
    /\ UNCHANGED <<JSBSIM_AVAILABLE, _jsbsim, _ws_connections, pc, jsbsim_failed_count,
                   _jsbsim_slow_speed_count, msg, it, dead, wsock, nticks, sw,
                   native_after_switch, bc, ev>>

NextPhys == \E ctl \in ControlChoices : PhysStep(ctl)

SpecPhys == InitPhys /\ [][NextPhys]_vars

----------------------------------------------------------------------------
(* The native backend's ticks observed: ph records how the last pass ended *)
(* and, for each of the three conditions the loop counts, on how many      *)
(* consecutive ticks up to and including that pass it held.                *)

\* n + 1, saturated at m.
UpTo(n, m) == IF n + 1 > m THEN m ELSE n + 1

\* The record of pass o, taken with staged controls ctl and watchdog count
\* slow, after the record h of the pass before.  step() failed (line 161);
\* get_state() returned the all-zero snapshot (line 174: the pass ends at
\* line 182, or switches and goes on to the broadcast); throttle > 0.3 with
\* a reported airspeed < 3.0 (line 190 was true, or the snapshot's airspeed
\* 0.0 was reported with that throttle).
Observe(h, o, ctl, slow) ==
    LET failed  == o.kind = "step_failed"
        invalid == o.kind = "invalid" \/ (o.kind = "bcast" /\ o.switched)
        lazy    == \/ o.kind = "watchdog"
                   \/ (o.kind = "bcast" /\ o.slow = slow + 1)
                   \/ (invalid /\ FGt(ctl.throttle, Lit(3, 10)))
    IN  [op |-> "tick", kind |-> o.kind, switched |-> o.switched,
         failed  |-> IF failed THEN UpTo(h.failed, MAX_JSBSIM_FAILURES) ELSE 0,
         invalid |-> IF invalid THEN UpTo(h.invalid, MAX_JSBSIM_FAILURES) ELSE 0,
         lazy    |-> IF lazy THEN UpTo(h.lazy, SLOW_SPEED_TICKS + 1) ELSE 0]

\* A native backend as the bootstrap leaves it, one subscriber, nothing
\* observed yet.
InitObserved ==
    /\ JSBSIM_AVAILABLE = TRUE
    /\ _jsbsim \in {r.w : r \in {q \in JSBSimWrapper_reset(Wrapper(TRUE, FdmRest, 0)) : ~q.raised}}
    /\ _state = None
    /\ _control = ZeroControl
    /\ _ws_connections = <<1>>
    /\ pc = "sleep"
    /\ jsbsim_failed_count = 0
    /\ _jsbsim_slow_speed_count = 0
    /\ msg = None
    /\ it = 0
    /\ dead = <<>>
    /\ wsock = [w \in WS |-> IF w = 1 THEN "open" ELSE "gone"]
    /\ bc = NoBc
    /\ ev = "none"
    /\ nticks = MaxTicks
    /\ sw = 2
    /\ native_after_switch = TRUE
    /\ ph = [op |-> "none", kind |-> "none", switched |-> FALSE,
             failed |-> 0, invalid |-> 0, lazy |-> 0]

TickObserved ==
    /\ pc = "sleep"
    /\ \E o \in physics_loop_pass(JSBSIM_AVAILABLE, _jsbsim, _state, _control,
                                  jsbsim_failed_count, _jsbsim_slow_speed_count) :
          /\ TickBody(o)
          /\ ph' = Observe(ph, o, _control, _jsbsim_slow_speed_count)

\* The pilot opens the throttle.
NextObserved ==
    \/ TickObserved
    \/ Send
    \/ FinishBroadcast
    \/ Receive(1, Object([NoKeys EXCEPT !.throttle = Num(Lit(1, 1))]))

SpecObserved == InitObserved /\ [][NextObserved]_vars

----------------------------------------------------------------------------
(* Control staging statement by statement: a handler's four `if key in     *)
(* data` statements (lines 362-369) are separate steps.  ph holds the      *)
(* handler that is inside a message (hdl, 0 for none), the message and the *)
(* next statement, the controls as whole messages applied in order of      *)
(* completion leave them (whole), and for the last pass of the loop the    *)
(* controls it read (used) against those of the whole messages (expect).   *)

\* The text each handler's client sends: valid, two keys each, both
\* writing the elevator.
StageMsg(ws) ==
    IF ws = 1
    THEN Object([NoKeys EXCEPT !.throttle = Num(Lit(2, 10)), !.elevator = Num(Lit(1, 1))])
    ELSE Object([NoKeys EXCEPT !.elevator = Num(FNeg(Lit(3, 1))), !.rudder = Num(Lit(1, 2))])

\* Variant: coroutines are preempted anywhere, as threads are.
AtAwait_preemptive(h) == TRUE

\* Every handler is suspended at `await ws.receive_text()` (line 359):
\* lines 360-372 contain no await, and the event loop runs a coroutine
\* until its next await before it runs another.
AtAwait(h) == h.hdl = 0

InitStage ==
    /\ JSBSIM_AVAILABLE = TRUE
    /\ _jsbsim \in {r.w : r \in {q \in JSBSimWrapper_reset(Wrapper(TRUE, FdmRest, 0)) : ~q.raised}}
    /\ _state = None
    /\ _control = ZeroControl
    /\ _ws_connections = <<1, 2>>
    /\ pc = "sleep"
    /\ jsbsim_failed_count = 0
    /\ _jsbsim_slow_speed_count = 0
    /\ msg = None
    /\ it = 0
    /\ dead = <<>>
    /\ wsock = [w \in WS |-> "open"]
    /\ bc = NoBc
    /\ ev = "none"
    /\ nticks = MaxTicks
    /\ sw = 2
    /\ native_after_switch = TRUE
    /\ ph = [op |-> "none", hdl |-> 0, key |-> 1, whole |-> ZeroControl,
             used |-> ZeroControl, expect |-> ZeroControl]

\* Line 359 returns a text to handler ws, line 360 parses it.
BeginMessage(ws) ==
    /\ AtAwait(ph)
    /\ wsock[ws] = "open"
    /\ ph' = [ph EXCEPT !.op = "begin", !.hdl = ws, !.key = 1]
    /\ UNCHANGED <<JSBSIM_AVAILABLE, _jsbsim, _state, _control, _ws_connections, pc,
                   jsbsim_failed_count, _jsbsim_slow_speed_count, msg, it, dead,
                   wsock, nticks, sw, native_after_switch, bc, ev>>

\* One of the four statements of lines 362-369; after the fourth the
\* handler is back at line 359.
ApplyKey ==
    /\ ph.hdl # 0
    /\ LET k == KeyOrder[ph.key]
           d == StageMsg(ph.hdl).data[k]
           last == ph.key = Len(KeyOrder)
       IN  /\ _control' = IF d.t = "num"
                          THEN [_control EXCEPT ![k] = ClampControl(k, d.v)]
                          ELSE _control
           /\ ph' = [ph EXCEPT !.op = "key",
                               !.hdl = IF last THEN 0 ELSE @,
                               !.key = IF last THEN 1 ELSE @ + 1,
                               !.whole = IF last
                                         THEN control_message(@, StageMsg(ph.hdl)).control
                                         ELSE @]
    /\ UNCHANGED <<JSBSIM_AVAILABLE, _jsbsim, _state, _ws_connections, pc,
                   jsbsim_failed_count, _jsbsim_slow_speed_count, msg, it, dead,
                   wsock, nticks, sw, native_after_switch, bc, ev>>

\* A pass of the loop, resumed from line 151 when no handler is running;
\* a pass that calls reset_sim writes the controls as a whole.
TickStage ==
    /\ pc = "sleep"
    /\ AtAwait(ph)
    /\ \E o \in physics_loop_pass(JSBSIM_AVAILABLE, _jsbsim, _state, _control,
                                  jsbsim_failed_count, _jsbsim_slow_speed_count) :
          /\ TickBody(o)
          /\ ph' = [ph EXCEPT !.op = "tick", !.used = _control, !.expect = ph.whole,
                              !.whole = IF o.control = _control THEN @ ELSE o.control]

\* The broadcast resumes from its await only when no handler is running.
NextStage ==
    \/ TickStage
    \/ (AtAwait(ph) /\ Send)
    \/ (AtAwait(ph) /\ FinishBroadcast)
    \/ \E ws \in WS : BeginMessage(ws)
    \/ ApplyKey

SpecStage == InitStage /\ [][NextStage]_vars

----------------------------------------------------------------------------
(* jsbsim_wrapper.py call by call: one JSBSimWrapper object, its tracking  *)
(* attributes, and an engine whose every call the environment decides.     *)
(* _jsbsim holds the object and ph the last call: its name, the object     *)
(* before it, the engine's behaviour during it, and its outcome.           *)
(* The step counter of lines 251-264 only selects the calls that log a     *)
(* debug line (inside try/except) and is left out.                         *)

SETTLE_RUNS == 120
BOUNCE_LIMIT == 50
STABILIZE_RUNS == 5
MaxBounce == 52

\* Python's None, and the failure of an engine lookup (fdm[name] raises
\* KeyError), where a float is expected.
NoFloat == FMAX + 3
Missing == FMAX + 4

\* __init__, lines 66-68.
NewWrapper == [initialized |-> FALSE, _bounce_count |-> 0, _last_altitude |-> NoFloat]

\* Breaks out of the settling loop after its first run.
SettleLoop_early(done, fail) ==
    IF fail = 1 THEN [runs |-> 0, raised |-> TRUE] ELSE [runs |-> 1, raised |-> FALSE]

\* Lines 152-153, `for _ in range(120): self.fdm.run()`, after `done` runs;
\* run number `fail` raises (0: none does).  The loop has no exit but the
\* end of the range and the exception.
SettleLoop(done, fail) ==
    IF done < fail /\ fail <= SETTLE_RUNS
    THEN [runs |-> fail - 1, raised |-> TRUE]
    ELSE [runs |-> IF done < SETTLE_RUNS THEN SETTLE_RUNS ELSE done, raised |-> FALSE]

\* JSBSimWrapper.initialize.  early: an engine call of lines 89-130 raises
\* (an initial condition, run_ic) before the controls are zeroed.
\* runs counts the engine runs made after run_ic.
initialize(w, early, fail) ==
    IF early
    THEN [w |-> [w EXCEPT !.initialized = FALSE], raised |-> TRUE, runs |-> 0,
          zeroed |-> FALSE]
    ELSE Bind(SettleLoop(0, fail), LAMBDA l :
             [w |-> [w EXCEPT !.initialized = ~l.raised], raised |-> l.raised,
              runs |-> l.runs, zeroed |-> TRUE])

\* JSBSimWrapper.reset.  early: creating or loading the new engine raises
\* (lines 424-426).
JSBSimWrapper_reset_call(w, early, fail) ==
    IF early
    THEN [w |-> [w EXCEPT !.initialized = FALSE], raised |-> TRUE, runs |-> 0,
          zeroed |-> FALSE]
    ELSE initialize(NewWrapper, FALSE, fail)

\* Variant with neither the initialized test nor the try/except.
step_unchecked(w, run, agl, k) ==
    [w |-> w, result |-> run = "true", raised |-> run = "raise",
     runs |-> IF run = "raise" THEN 0 ELSE 1]

\* JSBSimWrapper.step.  run: what fdm.run() of line 266 does ("true",
\* "false", "raise"); agl: what _get_property returns for
\* position/altitude-agl-ft (NoFloat when the lookup fails); k: how many of the
\* five stabilisation runs complete (fewer than five: the next one, or the
\* zeroing of the commands when k = 0, raises into the bare except).
\* runs counts the calls of fdm.run() that returned.
step(w, run, agl, k) ==
    IF ~w.initialized THEN [w |-> w, result |-> FALSE, raised |-> FALSE, runs |-> 0]
    ELSE IF run = "raise" THEN [w |-> w, result |-> FALSE, raised |-> FALSE, runs |-> 0]
    ELSE LET near == agl # NoFloat /\ FLt(agl, Lit(1, 1))
             b == IF near /\ w._last_altitude # NoFloat
                  THEN IF FGt(Abs(FSub(agl, w._last_altitude)), Lit(1, 10))
                       THEN w._bounce_count + 1
                       ELSE (IF w._bounce_count > 0 THEN w._bounce_count - 1 ELSE 0)
                  ELSE w._bounce_count
             stab == near /\ b > BOUNCE_LIMIT
         IN  [w |-> [w EXCEPT !._bounce_count = IF stab /\ k = STABILIZE_RUNS THEN 0 ELSE b,
                              !._last_altitude = IF near THEN agl ELSE @],
              result |-> run = "true", raised |-> FALSE,
              runs |-> 1 + (IF stab THEN k ELSE 0)]

\* The properties get_state reads.
PropNames ==
    {"position/h-sl-ft", "position/altitude-agl-ft", "position/long-gc-deg",
     "position/lat-gc-deg", "attitude/phi-deg", "attitude/theta-deg",
     "attitude/psi-deg", "velocities/u-fps", "velocities/v-fps", "velocities/w-fps",
     "velocities/h-dot-fps", "velocities/p-rad_sec", "velocities/p-rad-sec",
     "velocities/q-rad_sec", "velocities/q-rad-sec", "velocities/r-rad_sec",
     "velocities/r-rad-sec", "velocities/vt-fps", "fcs/throttle-cmd-norm"}

\* Variant that lets the lookup's failure through.
_get_property_raw(r, prop_name, default) == r[prop_name]

\* _get_property: the value, or default when the lookup raises.
_get_property(r, prop_name, default) ==
    IF r[prop_name] = Missing THEN default ELSE r[prop_name]

\* _get_prop: the first of names that has a value, or default.
RECURSIVE _get_prop(_, _, _)
_get_prop(r, names, default) ==
    IF names = <<>> THEN default
    ELSE IF _get_property(r, Head(names), NoFloat) # NoFloat
         THEN _get_property(r, Head(names), NoFloat)
    ELSE _get_prop(r, Tail(names), default)

\* Lines 355-363.
DegradedFrame ==
    [x |-> 0, y |-> 0, z |-> 0, altitude |-> 0,
     phi_deg |-> 0, theta_deg |-> 0, psi_deg |-> 0,
     airspeed |-> 0, vertical_speed |-> 0,
     p_deg_s |-> 0, q_deg_s |-> 0, r_deg_s |-> 0,
     throttle |-> 0, physics_engine |-> "manual"]

\* A float operand: anything else in arithmetic raises TypeError.
IsFloat(a) == a # NoFloat /\ a # Missing

\* JSBSimWrapper.get_state on the engine readings r.  raised: an operand of
\* the arithmetic of lines 388-407 is not a float (TypeError), or a square
\* of line 389 overflows (OverflowError).
get_state(r) ==
    IF /\ _get_property(r, "position/h-sl-ft", NoFloat) = NoFloat
       /\ _get_property(r, "position/altitude-agl-ft", NoFloat) = NoFloat
    THEN [raised |-> FALSE, frame |-> DegradedFrame]
    ELSE LET alt_ft   == _get_prop(r, <<"position/h-sl-ft", "position/altitude-agl-ft">>, 0)
             long_deg == _get_prop(r, <<"position/long-gc-deg">>, 0)
             lat_deg  == _get_prop(r, <<"position/lat-gc-deg">>, 0)
             phi      == _get_prop(r, <<"attitude/phi-deg">>, 0)
             theta    == _get_prop(r, <<"attitude/theta-deg">>, 0)
             psi      == _get_prop(r, <<"attitude/psi-deg">>, 0)
             u_fps    == _get_prop(r, <<"velocities/u-fps">>, 0)
             v_fps    == _get_prop(r, <<"velocities/v-fps">>, 0)
             w_fps    == _get_prop(r, <<"velocities/w-fps">>, 0)
             h_dot    == _get_prop(r, <<"velocities/h-dot-fps">>, 0)
             p_rad    == _get_prop(r, <<"velocities/p-rad_sec", "velocities/p-rad-sec">>, 0)
             q_rad    == _get_prop(r, <<"velocities/q-rad_sec", "velocities/q-rad-sec">>, 0)
             r_rad    == _get_prop(r, <<"velocities/r-rad_sec", "velocities/r-rad-sec">>, 0)
             tas      == _get_prop(r, <<"velocities/vt-fps">>, 0)
             throttle == _get_prop(r, <<"fcs/throttle-cmd-norm">>, 0)
             floats   == \A a \in {alt_ft, long_deg, lat_deg, u_fps, v_fps, w_fps, h_dot,
                                   p_rad, q_rad, r_rad, tas} : IsFloat(a)
             over     == tas = 0 /\ \E a \in {u_fps, v_fps, w_fps} :
                                        isfinite(a) /\ ~isfinite(FMul(a, a))
         IN  IF ~floats \/ over THEN [raised |-> TRUE, frame |-> None]
             ELSE [raised |-> FALSE,
              frame |->
               [x |-> FMul(long_deg, Lit(111320, 1)),
                y |-> FMul(lat_deg, Lit(111320, 1)),
                z |-> FMul(FNeg(alt_ft), FT),
                altitude |-> FMul(alt_ft, FT),
                phi_deg |-> phi, theta_deg |-> theta, psi_deg |-> psi,
                airspeed |-> FMul(IF tas = 0
                                  THEN sqrt(Sum3(FMul(u_fps, u_fps), FMul(v_fps, v_fps),
                                                 FMul(w_fps, w_fps)))
                                  ELSE tas, FT),
                vertical_speed |-> FMul(h_dot, FT),
                p_deg_s |-> FMul(p_rad, Lit(572958, 10000)),
                q_deg_s |-> FMul(q_rad, Lit(572958, 10000)),
                r_deg_s |-> FMul(r_rad, Lit(572958, 10000)),
                throttle |-> throttle, physics_engine |-> "jsbsim"]]

\* What the engine reports at altitude-agl-ft after a run.
AglReadings == {NoFloat, 0, Lit(1, 2), Lit(5, 1)}

\* The run of the settling loop that raises (0: none).
SettleFaults == {0, 1, SETTLE_RUNS}

\* Engine readings: every property at 2.0, or vt-fps at 0.0, with one
\* property, both altitudes, both roll-rate names, or all of them missing.
Readings ==
    { [n \in PropNames |-> IF n \in d THEN Missing
                           ELSE IF n = "velocities/vt-fps" THEN vt ELSE Lit(2, 1)]
        : d \in {{}} \cup {{n} : n \in PropNames}
                \cup {PropNames, {"position/h-sl-ft", "position/altitude-agl-ft"},
                      {"velocities/p-rad_sec", "velocities/p-rad-sec"}},
          vt \in {0, Lit(2, 1)} }

InitWrapper ==
    /\ JSBSIM_AVAILABLE = TRUE
    /\ _jsbsim = NewWrapper
    /\ _state = None
    /\ _control = ZeroControl
    /\ _ws_connections = <<>>
    /\ pc = "sleep"
    /\ jsbsim_failed_count = 0
    /\ _jsbsim_slow_speed_count = 0
    /\ msg = None
    /\ it = 0
    /\ dead = <<>>
    /\ wsock = [w \in WS |-> "new"]
    /\ nticks = 0
    /\ sw = 0
    /\ native_after_switch = FALSE
    /\ bc = NoBc
    /\ ev = "none"
    /\ ph = [op |-> "__init__", pre |-> NewWrapper, env |-> None, out |-> None]

\* One call of a method of the object; everything else stays.
Call(op, env, o) ==
    /\ _jsbsim' = IF op = "get_state" THEN _jsbsim ELSE o.w
    /\ ph' = [op |-> op, pre |-> _jsbsim, env |-> env, out |-> o]
    /\ UNCHANGED <<JSBSIM_AVAILABLE, _state, _control, _ws_connections, pc,
                   jsbsim_failed_count, _jsbsim_slow_speed_count, msg, it, dead, wsock,
                   nticks, sw, native_after_switch, bc, ev>>

CallInitialize ==
    \E early \in BOOLEAN : \E fail \in SettleFaults :
        Call("initialize", [early |-> early, fail |-> fail],
             initialize(_jsbsim, early, fail))

CallReset ==
    \E early \in BOOLEAN : \E fail \in SettleFaults :
        Call("reset", [early |-> early, fail |-> fail],
             JSBSimWrapper_reset_call(_jsbsim, early, fail))

CallStep ==
    /\ _jsbsim._bounce_count < MaxBounce
    /\ \E run \in {"true", "false", "raise"} : \E agl \in AglReadings :
          \E k \in 0..STABILIZE_RUNS :
             Call("step", [run |-> run, agl |-> agl, k |-> k], step(_jsbsim, run, agl, k))

CallGetState ==
    \E r \in Readings : Call("get_state", r, get_state(r))

NextWrapper == CallInitialize \/ CallReset \/ CallStep \/ CallGetState

SpecWrapper == InitWrapper /\ [][NextWrapper]_vars

----------------------------------------------------------------------------
(* Properties *)

\* C1: once the Failover Supervisor has switched from the native backend
\* to the manual integrator, the switch has happened exactly once, and no
\* later tick, reset, error recovery or subscription instantiates, resets
\* or steps the native backend again.
C1_FailoverIsFinal == sw <= 1 /\ ~native_after_switch

\* C2: in a broadcast where the send to one subscriber raised, every other
\* subscriber that was in the list (and has not left by itself) received
\* the frame and is still in the list, and every subscriber whose send
\* raised has been removed from the list.
C2_BroadcastIsolation ==
    (bc.done /\ bc.raised # {}) =>
        /\ \A ws \in bc.start \ bc.raised :
              wsock[ws] # "gone" => (ws \in bc.got /\ ws \in Elems(_ws_connections))
        /\ \A ws \in bc.raised : ws \notin Elems(_ws_connections)

InBounds(frame) ==
    /\ FGe(frame.altitude, ALTITUDE_MIN) /\ FLe(frame.altitude, ALTITUDE_MAX)
    /\ FLe(Abs(frame.x), POSITION_ABS_MAX) /\ FLe(Abs(frame.y), POSITION_ABS_MAX)

\* C3: no frame broadcast by the tick loop has an altitude outside
\* [ALTITUDE_MIN, ALTITUDE_MAX] or |x| or |y| above POSITION_ABS_MAX.
C3_FramesInBounds == pc = "send" => InBounds(msg)

\* C4: no error raised inside a tick's body terminates physics_loop: after
\* an error the loop is back at its sleep, and ticks occur infinitely often.
C4_TicksForever ==
    /\ [](pc # "crashed" /\ (ev = "error" => pc = "sleep"))
    /\ []<><<Tick>>_vars

\* C4: an error was raised in a pass and the loop is at its sleep again.
C4_Witness == ev = "error" /\ pc = "sleep" /\ _control = ZeroControl

Malformed(m) ==
    m.json # "object" \/ \E k \in ControlKeys : m.data[k].t \in {"bad", "huge"}

\* C5: a malformed control message (invalid JSON, not an object, or with a
\* present key whose value cannot be converted to a number) leaves all four
\* staged controls as they were, and the handler keeps receiving.
C5_MalformedDropped ==
    [][\A ws \in WS : \A m \in Msgs :
          (Malformed(m) /\ Receive(ws, m)) =>
              (_control' = _control /\ wsock'[ws] = "open")]_vars

ControlLow(k) == IF k = "throttle" THEN 0 ELSE FNeg(Lit(1, 1))
ControlHigh == Lit(1, 1)

ControlRange ==
    \A k \in ControlKeys : ControlLow(k) <= _control[k] /\ _control[k] <= ControlHigh

\* The value a finite number v must be stored as under key k.
Clamped(k, v, stored) ==
    /\ v < ControlLow(k) => stored = ControlLow(k)
    /\ v > ControlHigh => stored = ControlHigh
    /\ (ControlLow(k) <= v /\ v <= ControlHigh) => stored = v

\* C6: the staged throttle is always in [0,1] and the staged elevator,
\* aileron and rudder in [-1,1]; a message whose present keys are all
\* numbers stores each present key clamped and leaves absent keys alone.
C6_StagedControlsClamped ==
    /\ []ControlRange
    /\ [][\A ws \in WS : \A m \in Msgs :
            (~Malformed(m) /\ Receive(ws, m)) =>
                \A k \in ControlKeys :
                    /\ m.data[k].t = "absent" => _control'[k] = _control[k]
                    /\ (m.data[k].t = "num" /\ isfinite(m.data[k].v)) =>
                           Clamped(k, m.data[k].v, _control'[k])]_vars

\* C6: a throttle of 2.0 is staged as 1.0 and an elevator of -3.0 as -1.0,
\* each by a message that did not carry the other key.
C6_Witness ==
    /\ _control.throttle = Lit(1, 1)
    /\ _control.elevator = FNeg(Lit(1, 1))
    /\ _control.aileron = 0

Altitude(st) == state_to_telemetry(st).altitude

\* C7: starting on the ground (z = 0) below V_LOF, after any number of
\* update_physics steps with zero throttle and a nonzero elevator the
\* reported altitude is exactly 0.
C7_GroundFloorIdle ==
    (/\ ph.n > 0 /\ ~ph.raised /\ ph.idle
     /\ ph.first.z = 0 /\ FLt(v_mag_of(ph.first), V_LOF))
    => Altitude(_state) = 0

\* C8: a step whose input is on the ground (z >= 0) with airspeed below
\* V_LOF never returns a positive altitude; so in a run that starts on the
\* ground the airspeed has reached V_LOF before the altitude is positive.
C8_LiftOffAfterVLOF ==
    (ph.n > 0 /\ ~ph.raised) =>
        /\ (FGe(ph.pre.z, 0) /\ FLt(v_mag_of(ph.pre), V_LOF))
               => ~FGt(Altitude(_state), 0)
        /\ (ph.first.z = 0 /\ FGt(Altitude(_state), 0)) => ph.lof

\* C8: a step was taken on the ground below V_LOF whose integrated world
\* velocity pointed upward, and the altitude stayed 0.
C8_Witness ==
    /\ ph.n > 0 /\ ~ph.raised
    /\ FGe(ph.pre.z, 0) /\ FLt(v_mag_of(ph.pre), V_LOF)
    /\ FLt(WorldVelocity(ph.pre, DtHz).w_w, 0)
    /\ Altitude(_state) = 0

Speed(st) == sqrt(Sum3(FMul(st.u, st.u), FMul(st.v, st.v), FMul(st.w, st.w)))

\* The body velocity of lines 123-125, before the cap and the clamps.
Uncapped(st) ==
    Bind(AngularStep(st, DtHz), LAMBDA n :
    Bind(WorldVelocity(st, DtHz), LAMBDA wv :
    Bind(GroundContact(st, wv.w_w, DtHz), LAMBDA g :
        BodyVelocity(wv.u_w, wv.v_w, g.w_w, n.phi_new, n.theta_new, n.psi_new))))

\* a and b are the same vector up to one factor: their cross product is 0
\* (within a tolerance of 1 m2/s2 for the rounding of the components).
Parallel(a, b) ==
    /\ FLe(Abs(FSub(FMul(a.u, b.v), FMul(a.v, b.u))), Lit(1, 1))
    /\ FLe(Abs(FSub(FMul(a.u, b.w), FMul(a.w, b.u))), Lit(1, 1))
    /\ FLe(Abs(FSub(FMul(a.v, b.w), FMul(a.w, b.v))), Lit(1, 1))

\* C9: for an input whose speed exceeds MAX_AIRSPEED_MS, after one step
\* the reported airspeed is at most MAX_AIRSPEED_MS and the velocity was
\* scaled as a whole, all three components by the same factor.
C9_AirspeedCapWhole ==
    (ph.n > 0 /\ ~ph.raised /\ FGt(Speed(ph.pre), MAX_AIRSPEED_MS)) =>
        /\ FLe(state_to_telemetry(_state).airspeed, MAX_AIRSPEED_MS)
        /\ Parallel(_state, Uncapped(ph.pre))

AllFinite(st) == \A f \in StateFields : isfinite(st[f])

PosVel == {"x", "y", "z", "u", "v", "w"}

\* C10: for a finite input update_physics returns a state with every
\* field finite; an input with a non-finite position or velocity gives a
\* state that the bounds check detects, so that it is reset.
C10_FiniteInFiniteOut ==
    ph.n > 0 =>
        /\ AllFinite(ph.pre) => (~ph.raised /\ AllFinite(_state))
        /\ ((\E f \in PosVel : ~isfinite(ph.pre[f])) /\ ~ph.raised)
               => _state_out_of_bounds(state_to_telemetry(_state))

\* What a client can observe of the simulation: the staged controls, the
\* manual state with its telemetry, and which backend the loop will use.
Observable(av, jsb, st, ctl) ==
    [control |-> ctl, state |-> st,
     telemetry |-> IF st = None THEN None ELSE state_to_telemetry(st),
     native |-> av /\ jsb # None]

\* The observables after reset_sim (which zeroes the controls, lines 61-64).
AfterReset(av, jsb, st) ==
    { Observable(av, r.jsbsim, r.state, ZeroControl) : r \in reset_sim(av, jsb, st) }

AfterResetTwice(av, jsb, st) ==
    UNION { AfterReset(av, r.jsbsim, r.state) : r \in reset_sim(av, jsb, st) }

ManualActive(av, jsb) == ~(av /\ jsb # None)

\* C12: every forced reset (POST /reset) leaves the four staged controls at
\* 0 and, when the manual backend is the active one, the manual state at the
\* all-zero initial condition.
C12_ResetToInitialCondition ==
    [][reset => /\ _control' = ZeroControl
                /\ (ManualActive(JSBSIM_AVAILABLE, _jsbsim') => _state' = AircraftState)]_vars

\* C17: the end of a broadcast in which a send raised leaves the staged
\* controls, the manual state and the native backend as they were (no
\* reset), and every subscriber whose send raised is out of the list.
C17_SendFailureLocal ==
    [][(FinishBroadcast /\ bc.raised # {}) =>
           /\ _control' = _control /\ _state' = _state /\ _jsbsim' = _jsbsim
           /\ ev' # "error"
           /\ \A ws \in bc.raised : ws \notin Elems(_ws_connections')]_vars

\* C20: a tick that abandons the native backend stores the initial
\* AircraftState as the manual state.
C20_FallbackStartsFresh ==
    [][(Tick /\ _jsbsim # None /\ _jsbsim' = None) => _state' = AircraftState]_vars

\* The dict `{}` of line 353.
EmptyFrame == [empty |-> TRUE]

\* Lines 343-353: the frame the handler serialises for a new subscriber,
\* from the backend and the manual state as reset_sim (if called) left them.
FirstFrame(av, jsb, st) ==
    IF av /\ jsb # None THEN JSBSimWrapper_get_state(jsb)
    ELSE IF st # None THEN state_to_telemetry(st)
    ELSE EmptyFrame

\* C16: the frame sent to a subscriber on connection is a telemetry record
\* (never the empty object), whatever the backend state.
C16_FirstFrameIsTelemetry ==
    [][\A ws \in WS :
          Connect(ws) => FirstFrame(JSBSIM_AVAILABLE, _jsbsim', _state') # EmptyFrame]_vars

\* C18: with a subscriber whose send never completes, every broadcast still
\* ends (the loop is back at its sleep and ticks again), and every other
\* open subscriber of that broadcast receives its frame.
C18_HungPeerDoesNotStall ==
    /\ (pc = "send") ~> (pc = "sleep")
    /\ \A ws \in WS :
          (pc = "send" /\ ws \in bc.start /\ wsock[ws] = "open")
              ~> (ws \in bc.got \/ wsock[ws] # "open")

\* C13: a call of step() on an initialized wrapper whose engine run returns
\* has run the engine exactly once, whatever the bounce counter and the
\* last altitude are.
C13_StepIsOneRun ==
    (ph.op = "step" /\ ph.pre.initialized /\ ph.env.run # "raise") => ph.out.runs = 1

\* C14: step() never raises; on a wrapper that is not initialized it
\* returns False, runs nothing and changes nothing; when the engine run
\* raises it returns False.
C14_StepNeverRaises ==
    ph.op = "step" =>
        /\ ~ph.out.raised
        /\ ~ph.pre.initialized =>
              (~ph.out.result /\ ph.out.runs = 0 /\ ph.out.w = ph.pre)
        /\ ph.env.run = "raise" => (~ph.out.result /\ ph.out.runs = 0)

\* C14: step() was called after a reset that failed, on an object that had
\* been stepped near the ground before.
C14_Witness ==
    /\ ph.op = "step" /\ ~ph.pre.initialized /\ ph.pre._last_altitude # NoFloat
    /\ ~ph.out.result

C19_InitializeSettles ==
    ph.op = "initialize" =>
        IF ph.out.raised THEN ~_jsbsim.initialized
        ELSE ph.out.runs = SETTLE_RUNS /\ ph.out.zeroed /\ _jsbsim.initialized

\* C19: initialize returned normally on an object that was not initialized.
C19_Witness ==
    /\ ph.op = "initialize" /\ ~ph.pre.initialized
    /\ ~ph.out.raised /\ _jsbsim.initialized

\* C27: a step taken outside physics_loop (a subscriber's handler, POST
\* /reset) leaves the backend as it is; in particular while the tick is
\* suspended inside its broadcast.
C27_BackendOwnedByLoop ==
    [][(reset \/ \E ws \in WS : Connect(ws)) => _jsbsim' = _jsbsim]_vars

\* C28: when a broadcast has ended, every subscriber that was registered
\* when it started and is still registered and open has been sent the frame.
C28_BroadcastSnapshot ==
    bc.done =>
        \A ws \in bc.start :
            (ws \in Elems(_ws_connections) /\ wsock[ws] = "open") => ws \in bc.got

\* C21: a tick that abandons the native backend leaves the four staged
\* controls at 0.
C21_FallbackStartsNeutral ==
    [][(Tick /\ _jsbsim # None /\ _jsbsim' = None) => _control' = ZeroControl]_vars

\* C24: the frame a tick broadcasts is never the all-zero record that
\* get_state returns when the engine's properties are not accessible.
C24_DegradedNeverSent == pc = "send" => msg # DegradedFrame

\* C26: a broadcast frame that the native wrapper's get_state produced
\* (there is no manual state) is tagged "jsbsim".
C26_TagNamesBackend ==
    (pc = "send" /\ _state = None) => msg.physics_engine = "jsbsim"

\* C22: a tick switches on the failure count only when step() has failed
\* on MAX_JSBSIM_FAILURES consecutive ticks, or get_state() has returned the
\* all-zero snapshot on MAX_JSBSIM_FAILURES consecutive ticks.
C22_CountSwitchAfterTenOfAKind ==
    (ph.op = "tick" /\ ph.switched /\ ph.kind # "watchdog") =>
        (ph.failed >= MAX_JSBSIM_FAILURES \/ ph.invalid >= MAX_JSBSIM_FAILURES)

\* C23: the watchdog switches only when throttle > 0.3 with airspeed < 3.0
\* has held on more than SLOW_SPEED_TICKS consecutive ticks.
C23_WatchdogWindowConsecutive ==
    (ph.op = "tick" /\ ph.kind = "watchdog") => ph.lazy > SLOW_SPEED_TICKS

\* C25: a pass of the loop that does not reach the broadcast is one in
\* which step() failed.
C25_SkipOnlyOnStepFailure ==
    ph.op = "tick" => ph.kind \in {"bcast", "step_failed"}

Within(limit, a) == FLe(FNeg(limit), a) /\ FLe(a, limit)

StabilityClamps(st) ==
    /\ Within(MAX_ANGLE, st.phi) /\ Within(MAX_ANGLE, st.theta)
    /\ FLe(0, st.psi) /\ FLt(st.psi, TwoPi)
    /\ \A f \in {"p", "q", "r"} : Within(MAX_ANGULAR_RATE, st[f])
    /\ \A f \in {"x", "y", "z"} : Within(POS_LIMIT, st[f])
    /\ \A f \in {"u", "v", "w"} : Within(MAX_SPEED, st[f])
    /\ FLe(st.z, 0)

\* C30: the state returned by an update_physics step satisfies the
\* stability clamps (angles, heading, angular rates, position, velocity
\* components, z never above 0) and carries the four control fields of
\* its input unchanged.
C30_ClampsHoldAfterStep ==
    (ph.n > 0 /\ ~ph.raised) =>
        /\ StabilityClamps(_state)
        /\ \A k \in {"throttle", "elevator", "aileron", "rudder"} :
               _state[k] = ph.pre[k]

\* C29: the controls a pass of the loop reads are those left by the whole
\* control messages completed before it, applied in order of completion:
\* never part of a message, and for a key written by several handlers
\* the value of the message completed last.
C29_WholeMessageLastWriteWins ==
    ph.op = "tick" => ph.used = ph.expect

\* A pass reads the throttle of handler 1's message and the elevator and
\* rudder of handler 2's message, completed after it.
C29_Witness ==
    /\ ph.op = "tick"
    /\ ph.used = [throttle |-> Lit(2, 10), elevator |-> FNeg(Lit(1, 1)),
                  aileron |-> 0, rudder |-> Lit(1, 2)]
    /\ ph.expect = ph.used

\* C31: accepting a subscriber and sending its first frame leaves the
\* simulation as it is: the backend is neither created nor replaced nor
\* reset, the manual state is not reset, and the staged controls keep the
\* values other subscribers wrote.
C31_SubscribeReadOnly ==
    [][(\E ws \in WS : Connect(ws)) =>
          /\ _jsbsim' = _jsbsim
          /\ _state' = _state
          /\ _control' = _control]_vars

=============================================================================
